---------------------------- MODULE Spec2Model ----------------------------
(***************************************************************************)
(* Model of src/Car_Rental_bakcend.js: the in-memory car-rental store, the *)
(* CSV upload that fills the salesDataFiles cache, normalizeSalesData and  *)
(* the four analytics handlers built on it.                                *)
(*                                                                         *)
(* JavaScript numbers are modelled as exact fractions p/q plus NaN, and    *)
(* toFixed rounds them as it rounds a double; the rounding error of double *)
(* arithmetic itself is not modelled.  The cell texts of the model are     *)
(* integers and a binary fraction, which a double holds exactly.           *)
(***************************************************************************)
EXTENDS Integers, Sequences, FiniteSets, TLC

VARIABLES
  uploads,          \* fileId -> the request-local state of POST /upload-sales
  salesDataFiles,   \* the cache: fileId -> parsed rows              (line 24)
  resp,             \* the response most recently sent by any handler
  lastNormalized,   \* the constant normalized of the last analytics request
  cars,             \* carId -> [pricePerDay, available]             (line 20)
  customers,        \* customerId -> name                            (line 21)
  rentals,          \* active rentals, a sequence                    (line 22)
  rentalHistory,    \* finished and logged rental events             (line 23)
  ids               \* how many identifiers genId has handed out

vars == <<uploads, salesDataFiles, resp, lastNormalized, cars, customers, rentals,
          rentalHistory, ids>>

salesVars == <<uploads, salesDataFiles, lastNormalized>>
rentalVars == <<cars, customers, rentals, rentalHistory, ids>>

-----------------------------------------------------------------------------
(* Bounds of the model.                                                    *)
MaxRows == 3        \* data rows of an uploaded file
MaxDirtyRows == 2   \* data rows of a file with unparsable or short rows
MaxUploads == 2     \* uploads issued in one run of the upload model
MaxStreamRows == 2  \* data rows of a file in the upload model
MaxWindow == 2      \* largest explicit moving-average window
MaxForecast == 2    \* largest explicit forecast count
MaxNewCars == 1     \* cars added by POST /cars
MaxHistory == 3     \* entries of rentalHistory

-----------------------------------------------------------------------------
(* JavaScript values.                                                      *)

\* The value undefined, where a string is expected.
Undefined == "<undefined>"

\* A number: NaN, or the fraction p/q in lowest terms with q > 0.
NaN == [t |-> "num", nan |-> TRUE, p |-> 0, q |-> 1]

Abs(n) == IF n < 0 THEN -n ELSE n

RECURSIVE Gcd(_, _)
Gcd(a, b) == IF b = 0 THEN a ELSE Gcd(b, a % b)

\* The number p/q, q # 0.
Rat(p, q) ==
  LET g == Gcd(Abs(p), Abs(q))
      s == IF q < 0 THEN -1 ELSE 1
  IN [t |-> "num", nan |-> FALSE, p |-> s * (p \div g), q |-> s * (q \div g)]

Num(n) == Rat(n, 1)

IsNaN(x) == x.nan

\* x + y, x - y, x * y: NaN if either operand is.
Add(x, y) ==
  IF x.nan \/ y.nan THEN NaN ELSE Rat(x.p * y.q + y.p * x.q, x.q * y.q)

Sub(x, y) ==
  IF x.nan \/ y.nan THEN NaN ELSE Rat(x.p * y.q - y.p * x.q, x.q * y.q)

\* (the common factors are taken out before the products are formed)
Mul(x, y) ==
  IF x.nan \/ y.nan THEN NaN
  ELSE LET g1 == Gcd(Abs(x.p), y.q)
           g2 == Gcd(Abs(y.p), x.q)
       IN Rat((x.p \div g1) * (y.p \div g2), (x.q \div g2) * (y.q \div g1))

\* x / y.  0/0 is NaN.  A nonzero dividend over 0 would be an Infinity; no
\* handler divides so: every divisor that can be 0 divides a 0 (the sum of an
\* empty array) or is tested by den === 0 first.
Div(x, y) ==
  IF x.nan \/ y.nan \/ y.p = 0 THEN NaN
  ELSE Mul(x, Rat(y.q, y.p))

\* v || 0 for a number v: 0 and NaN are falsy.
OrZero(v) == IF v.nan \/ v.p = 0 THEN Num(0) ELSE v

RECURSIVE Pow10(_)
Pow10(d) == IF d = 0 THEN 1 ELSE 10 * Pow10(d - 1)

\* Number(x.toFixed(d)): the multiple of 10^-d nearest x, the larger in
\* magnitude of two equally near; NaN stays NaN.
toFixed(x, d) ==
  IF x.nan THEN NaN
  ELSE LET s == IF x.p < 0 THEN -1 ELSE 1
           n == (2 * Abs(x.p) * Pow10(d) + x.q) \div (2 * x.q)
       IN Rat(s * n, Pow10(d))

\* arr.reduce((a,b)=>a+b, 0)
RECURSIVE Sum(_)
Sum(arr) == IF Len(arr) = 0 THEN Num(0) ELSE Add(Sum(SubSeq(arr, 1, Len(arr) - 1)), arr[Len(arr)])

\* A Date: its time value in seconds since the epoch, or an Invalid Date.
DateOf(secs) == [t |-> "date", nan |-> FALSE, p |-> secs, q |-> 1]
InvalidDate == [t |-> "date", nan |-> TRUE, p |-> 0, q |-> 1]

-----------------------------------------------------------------------------
(* The texts a CSV cell of the model holds, and what the JavaScript        *)
(* conversions make of each.                                               *)

DateCells == {"2024-01-15", "n/a"}
NumCells == {"", "abc", "10", "20", "30", "10.125"}
CleanCells == {"10", "20", "30", "10.125"}
SecondCells == {"10", "20"}

\* new Date(v)
NewDate(v) ==
  CASE v = "2024-01-15" -> DateOf(1705276800)
    [] OTHER -> InvalidDate

\* Number(v) for a string v
ToNumber(v) ==
  CASE v = "" -> Num(0)
    [] v = "10" -> Num(10)
    [] v = "20" -> Num(20)
    [] v = "30" -> Num(30)
    [] v = "10.125" -> Rat(81, 8)
    [] OTHER -> NaN

\* !v for a string or undefined v
Falsy(v) == v = Undefined \/ v = ""

-----------------------------------------------------------------------------
(* Raw rows: an object is the sequence of its [k, v] properties in         *)
(* insertion order.  No column name of the model is an integer index, so   *)
(* Object.keys lists them in that order.                                   *)

ObjectKeys(obj) == [i \in 1..Len(obj) |-> obj[i].k]

\* obj[key]
Get(obj, key) ==
  IF \E i \in 1..Len(obj) : obj[i].k = key
  THEN obj[CHOOSE i \in 1..Len(obj) : obj[i].k = key].v
  ELSE Undefined

\* csv-parser: one object per data line, a property per cell under the
\* header's name for that position; a short line leaves the rest absent.
CsvRow(header, cells) ==
  [i \in 1..Len(cells) |-> [k |-> header[i], v |-> cells[i]]]

CsvRows(file) ==
  [n \in 1..Len(file.lines) |-> CsvRow(file.header, file.lines[n])]

\* arr.filter(keep) for a predicate given as the set of kept elements' indexes
RECURSIVE Filter(_, _)
Filter(arr, keep) ==
  IF Len(arr) = 0 THEN <<>>
  ELSE LET front == Filter(SubSeq(arr, 1, Len(arr) - 1), keep)
       IN IF Len(arr) \in keep THEN Append(front, arr[Len(arr)]) ELSE front

-----------------------------------------------------------------------------
(* normalizeSalesData (lines 136-148).                                     *)

\* map.get(key): [def |-> FALSE] stands for undefined.
MapGet(map, key) ==
  IF key \in DOMAIN map THEN [def |-> TRUE, rows |-> map[key]]
  ELSE [def |-> FALSE, rows |-> <<>>]

\* map.set(key, value) on a map kept as a function
MapSet(map, key, value) ==
  [k \in DOMAIN map \cup {key} |-> IF k = key THEN value ELSE map[k]]

\* The guard without its length test.
RowsMissing_Mut(got) == ~got.def

\* if (!rows || !rows.length) return null;                       (line 137)
RowsMissing(got) == ~got.def \/ Len(got.rows) = 0

\* Object.keys(rows[0]).slice(1)                                 (line 141)
SeriesColsOf(cols) == IF Len(cols) = 0 THEN <<>> ELSE Tail(cols)

Range(seq) == {seq[i] : i \in 1..Len(seq)}

\* Number(r[c] || 0)                                             (line 144)
CellNumber(v) == IF Falsy(v) THEN Num(0) ELSE ToNumber(v)

\* The object the map callback builds for raw row r (lines 143-145): date
\* first, then one property per series column; a series column that is
\* itself named "date" overwrites the Date with its number.
NormalizeRow(r, dateCol, seriesCols) ==
  [key \in {"date"} \cup Range(seriesCols) |->
     IF key \in Range(seriesCols) THEN CellNumber(Get(r, key))
     ELSE NewDate(Get(r, dateCol))]

\* x.date.getTime() is a TypeError unless x.date is a Date      (line 146)
GetTimeThrows(x) == x["date"].t # "date"

\* !isNaN(x.date.getTime())                                      (line 146)
HasValidDate(x) == ~x["date"].nan

\* No analytics request has run yet.
NotNormalized ==
  [kind |-> "none", dateCol |-> Undefined, seriesCols |-> <<>>, parsed |-> <<>>]

\* kind is "null" (the null return), "throw" (an exception leaves the
\* function) or "ok" (the object of line 147).
normalizeSalesData(got) ==
  IF RowsMissing(got)
  THEN [kind |-> "null", dateCol |-> Undefined, seriesCols |-> <<>>, parsed |-> <<>>]
  \* rows[0] of undefined, and Object.keys of the undefined rows[0] of an
  \* empty array, are TypeErrors
  ELSE IF ~got.def \/ Len(got.rows) = 0
  THEN [kind |-> "throw", dateCol |-> Undefined, seriesCols |-> <<>>, parsed |-> <<>>]
  ELSE LET rows == got.rows
           cols == ObjectKeys(rows[1])
           dateCol == IF Len(cols) = 0 THEN Undefined ELSE cols[1]
           seriesCols == SeriesColsOf(cols)
           mapped == [i \in 1..Len(rows) |-> NormalizeRow(rows[i], dateCol, seriesCols)]
       IN IF \E i \in 1..Len(mapped) : GetTimeThrows(mapped[i])
          THEN [kind |-> "throw", dateCol |-> dateCol, seriesCols |-> seriesCols,
                parsed |-> <<>>]
          ELSE [kind |-> "ok", dateCol |-> dateCol, seriesCols |-> seriesCols,
                parsed |-> Filter(mapped, {i \in 1..Len(mapped) : HasValidDate(mapped[i])})]

-----------------------------------------------------------------------------
(* Responses.  Every handler ends by sending one; resp keeps the last.     *)

NoResp == [op |-> "none", status |-> 0]

\* res.status(400).json({ error: 'invalid or missing fileId' })
InvalidFileId(op, req) ==
  [op |-> op, req |-> req, status |-> 400, error |-> "invalid or missing fileId"]

\* res.status(400).json({ error: 'product not found' })
ProductNotFound(op, req) ==
  [op |-> op, req |-> req, status |-> 400, error |-> "product not found"]

\* An exception thrown inside a handler: Express answers 500.
ServerError(op, req) ==
  [op |-> op, req |-> req, status |-> 500, error |-> "TypeError"]

\* res.json(body)
Ok(op, req, body) == [op |-> op, req |-> req, status |-> 200, body |-> body]

\* A destructuring default, const { x = d } = req.body: opt is <<>> when
\* the field is absent and <<v>> when it is v.
Default(opt, d) == IF opt = <<>> THEN d ELSE opt[1]

\* parsed.map(r => r[c] || 0)
Column(parsed, c) == [i \in 1..Len(parsed) |-> OrZero(parsed[i][c])]

-----------------------------------------------------------------------------
(* POST /analytics/top-seller (lines 153-163).                             *)

\* totals after lines 158-160, as Object.entries lists them: one [name,
\* total] per series column, in column order.
TotalsEntries(normalized) ==
  [j \in 1..Len(normalized.seriesCols) |->
     [name |-> normalized.seriesCols[j],
      total |-> Sum(Column(normalized.parsed, normalized.seriesCols[j]))]]

\* b[1] - a[1] > 0: the comparator puts b before a
Less(x, y) == x.p * y.q < y.p * x.q

\* entries.sort((a,b) => b[1] - a[1]): stable, descending by total.
RECURSIVE InsertDesc(_, _)
InsertDesc(sorted, e) ==
  IF Len(sorted) = 0 THEN <<e>>
  ELSE IF Less(sorted[Len(sorted)].total, e.total)
       THEN Append(InsertDesc(SubSeq(sorted, 1, Len(sorted) - 1), e), sorted[Len(sorted)])
       ELSE Append(sorted, e)

RECURSIVE SortDesc(_)
SortDesc(entries) ==
  IF Len(entries) = 0 THEN <<>>
  ELSE InsertDesc(SortDesc(SubSeq(entries, 1, Len(entries) - 1)), entries[Len(entries)])

TopSellerResponse(files, fileId) ==
  LET req == [fileId |-> fileId]
      normalized == normalizeSalesData(MapGet(files, fileId))
      sorted == SortDesc(TotalsEntries(normalized))
  IN IF normalized.kind = "throw" THEN ServerError("top-seller", req)
     ELSE IF normalized.kind = "null" THEN InvalidFileId("top-seller", req)
     \* top is undefined without a series column: top[0] throws
     ELSE IF Len(sorted) = 0 THEN ServerError("top-seller", req)
     ELSE Ok("top-seller", req,
             [topProduct |-> sorted[1].name, total |-> sorted[1].total])

-----------------------------------------------------------------------------
(* POST /analytics/moving-average (lines 166-181).                         *)

Max(a, b) == IF a > b THEN a ELSE b

\* The entry pushed for zero-based index i (lines 175-178).
MovingEntry(values, parsed, window, i) ==
  LET start == Max(0, i - window + 1)
      slice == SubSeq(values, start + 1, i + 1)
  IN [index |-> i, date |-> parsed[i + 1]["date"].p,
      ma |-> Div(Sum(slice), Num(Len(slice)))]

MovingAverageResponse(files, fileId, product, windowOpt) ==
  LET req == [fileId |-> fileId, product |-> product, window |-> windowOpt]
      window == Default(windowOpt, 3)
      normalized == normalizeSalesData(MapGet(files, fileId))
      values == Column(normalized.parsed, product)
  IN IF normalized.kind = "throw" THEN ServerError("moving-average", req)
     ELSE IF normalized.kind = "null" THEN InvalidFileId("moving-average", req)
     ELSE IF product \notin Range(normalized.seriesCols)
          THEN ProductNotFound("moving-average", req)
     ELSE Ok("moving-average", req,
             [product |-> product, window |-> window,
              movingAverage |->
                [j \in 1..Len(values) |->
                   MovingEntry(values, normalized.parsed, window, j - 1)]])

-----------------------------------------------------------------------------
(* POST /analytics/correlation (lines 184-210).                            *)

\* p1/q1 <= p2/q2 for fractions >= 0, by continued fractions (no product
\* that could leave the integer range).
RECURSIVE LeqFrac(_, _, _, _)
LeqFrac(p1, q1, p2, q2) ==
  LET i1 == p1 \div q1
      i2 == p2 \div q2
      r1 == p1 % q1
      r2 == p2 % q2
  IN IF i1 # i2 THEN i1 < i2
     ELSE IF r1 = 0 THEN TRUE
     ELSE IF r2 = 0 THEN FALSE
     ELSE LeqFrac(q2, r2, q1, r1)

\* The largest n in lo..hi with (n - 1/2) / scale <= sqrt(sq), given that
\* lo is one.
RECURSIVE RoundSearch(_, _, _, _)
RoundSearch(lo, hi, sq, scale) ==
  IF lo >= hi THEN lo
  ELSE LET mid == (lo + hi + 1) \div 2
       IN IF LeqFrac((2 * mid - 1) * (2 * mid - 1), 4 * scale * scale, sq.p, sq.q)
          THEN RoundSearch(mid, hi, sq, scale)
          ELSE RoundSearch(lo, mid - 1, sq, scale)

\* pearson(x, y) (lines 192-201).  The coefficient num / (sqrt(sx2) *
\* sqrt(sy2)) is kept as its sign and its square, a fraction in 0..1; the
\* fallback 0 of den === 0 is sign 0.
pearson(x, y) ==
  LET n == Len(x)
      mx == Div(Sum(x), Num(n))
      my == Div(Sum(y), Num(n))
      num == Sum([i \in 1..n |-> Mul(Sub(x[i], mx), Sub(y[i], my))])
      sx2 == Sum([i \in 1..n |-> Mul(Sub(x[i], mx), Sub(x[i], mx))])
      sy2 == Sum([i \in 1..n |-> Mul(Sub(y[i], my), Sub(y[i], my))])
      denIsZero == sx2.p = 0 \/ sy2.p = 0
  IN IF denIsZero \/ num.p = 0 THEN [sign |-> 0, sq |-> Num(0), denIsZero |-> denIsZero]
     ELSE [sign |-> IF num.p < 0 THEN -1 ELSE 1,
           sq |-> Mul(Div(num, sx2), Div(num, sy2)),
           denIsZero |-> FALSE]

\* Number(r.toFixed(d)) for a coefficient r kept as sign and square.
SurdToFixed(r, d) ==
  IF r.sign = 0 THEN Num(0)
  ELSE Rat(r.sign * RoundSearch(0, Pow10(d), r.sq, Pow10(d)), Pow10(d))

\* matrix[a][b] (line 206)
MatrixEntry(parsed, a, b) ==
  SurdToFixed(pearson(Column(parsed, a), Column(parsed, b)), 4)

CorrelationResponse(files, fileId) ==
  LET req == [fileId |-> fileId]
      normalized == normalizeSalesData(MapGet(files, fileId))
      cols == Range(normalized.seriesCols)
  IN IF normalized.kind = "throw" THEN ServerError("correlation", req)
     ELSE IF normalized.kind = "null" THEN InvalidFileId("correlation", req)
     ELSE Ok("correlation", req,
             [correlation |->
                [a \in cols |-> [b \in cols |-> MatrixEntry(normalized.parsed, a, b)]]])

-----------------------------------------------------------------------------
(* POST /analytics/forecast (lines 213-239).                               *)

\* The regression with the rows counted from 1.
Regression_Mut(y) ==
  LET n == Len(y)
      X == [i \in 1..n |-> Num(i)]
      xMean == Div(Sum(X), Num(n))
      yMean == Div(Sum(y), Num(n))
      num == Sum([i \in 1..n |-> Mul(Sub(X[i], xMean), Sub(y[i], yMean))])
      den == Sum([i \in 1..n |-> Mul(Sub(X[i], xMean), Sub(X[i], xMean))])
      slope == IF ~den.nan /\ den.p = 0 THEN Num(0) ELSE Div(num, den)
  IN [slope |-> slope, intercept |-> Sub(yMean, Mul(slope, xMean))]

\* The least-squares line through (i, y[i]), i the zero-based index
\* (lines 220-229).
Regression(y) ==
  LET n == Len(y)
      X == [i \in 1..n |-> Num(i - 1)]
      xMean == Div(Sum(X), Num(n))
      yMean == Div(Sum(y), Num(n))
      num == Sum([i \in 1..n |-> Mul(Sub(X[i], xMean), Sub(y[i], yMean))])
      den == Sum([i \in 1..n |-> Mul(Sub(X[i], xMean), Sub(X[i], xMean))])
      slope == IF ~den.nan /\ den.p = 0 THEN Num(0) ELSE Div(num, den)
  IN [slope |-> slope, intercept |-> Sub(yMean, Mul(slope, xMean))]

\* The entry pushed for m (lines 233-235).
ForecastEntry(line, n, m) ==
  LET idx == n + (m - 1)
      pred == Add(line.intercept, Mul(line.slope, Num(idx)))
  IN [monthIndex |-> idx, predicted |-> toFixed(pred, 2)]

ForecastResponse(files, fileId, product, monthsOpt) ==
  LET req == [fileId |-> fileId, product |-> product, monthsForecast |-> monthsOpt]
      monthsForecast == Default(monthsOpt, 3)
      normalized == normalizeSalesData(MapGet(files, fileId))
      y == Column(normalized.parsed, product)
      line == Regression(y)
  IN IF normalized.kind = "throw" THEN ServerError("forecast", req)
     ELSE IF normalized.kind = "null" THEN InvalidFileId("forecast", req)
     ELSE IF product \notin Range(normalized.seriesCols)
          THEN ProductNotFound("forecast", req)
     ELSE Ok("forecast", req,
             [product |-> product,
              slope |-> toFixed(line.slope, 4),
              intercept |-> toFixed(line.intercept, 4),
              forecast |-> [m \in 1..monthsForecast |-> ForecastEntry(line, Len(y), m)]])

-----------------------------------------------------------------------------
(* POST /upload-sales (lines 119-133).  A file is its header and its data  *)
(* lines, each a sequence of cells.  The stream's events are one action    *)
(* each.                                                                   *)

\* multer's generated file names, in the order it hands them out
FileNames == <<"f1", "f2", "f3", "f4">>

SeqsUpTo(S, n) == UNION {[1..k -> S] : k \in 0..n}

\* An upload whose stream has ended or failed: its handlers run no more and
\* its request-local state is out of reach.
NoFile == [header |-> <<>>, lines |-> <<>>]
Settled(status) == [file |-> NoFile, next |-> 0, results |-> <<>>, status |-> status]

\* req.file is set: results = [] and the stream starts (lines 120-124)
PostUploadSales(file) ==
  /\ Cardinality(DOMAIN uploads) < MaxUploads
  /\ LET f == FileNames[Cardinality(DOMAIN uploads) + 1]
     IN uploads' = uploads @@
          (f :> [file |-> file, next |-> 1, results |-> <<>>, status |-> "streaming"])
  /\ UNCHANGED <<salesDataFiles, resp, lastNormalized, rentalVars>>

\* if (!req.file) return res.status(400)...                      (line 120)
PostUploadSalesNoFile ==
  /\ resp' = [op |-> "upload-sales", req |-> [fileId |-> Undefined],
              status |-> 400, error |-> "file required"]
  /\ UNCHANGED <<salesVars, rentalVars>>

\* A 'data' handler that also publishes the rows read so far.
OnData_Mut(f) ==
  /\ uploads[f].status = "streaming"
  /\ uploads[f].next <= Len(uploads[f].file.lines)
  /\ uploads' = [uploads EXCEPT
       ![f].results = Append(@, CsvRow(uploads[f].file.header,
                                       uploads[f].file.lines[uploads[f].next])),
       ![f].next = @ + 1]
  /\ salesDataFiles' = MapSet(salesDataFiles, f, uploads'[f].results)
  /\ UNCHANGED <<resp, lastNormalized, rentalVars>>

\* .on('data', (data) => results.push(data))                     (line 125)
OnData(f) ==
  /\ uploads[f].status = "streaming"
  /\ uploads[f].next <= Len(uploads[f].file.lines)
  /\ uploads' = [uploads EXCEPT
       ![f].results = Append(@, CsvRow(uploads[f].file.header,
                                       uploads[f].file.lines[uploads[f].next])),
       ![f].next = @ + 1]
  /\ UNCHANGED <<salesDataFiles, resp, lastNormalized, rentalVars>>

\* .on('end', ...): the cache entry is set and the upload answered
\* (lines 126-129)
OnEnd(f) ==
  /\ uploads[f].status = "streaming"
  /\ uploads[f].next > Len(uploads[f].file.lines)
  /\ salesDataFiles' = MapSet(salesDataFiles, f, uploads[f].results)
  /\ uploads' = [uploads EXCEPT ![f] = Settled("ended")]
  /\ resp' = Ok("upload-sales", [fileId |-> f],
                [message |-> "file uploaded", fileId |-> f,
                 rows |-> Len(uploads[f].results)])
  /\ UNCHANGED <<lastNormalized, rentalVars>>

\* .on('error', ...): answered 500, nothing cached; a stream that failed
\* emits no further event (lines 130-132)
OnError(f) ==
  /\ uploads[f].status = "streaming"
  /\ uploads' = [uploads EXCEPT ![f] = Settled("error")]
  /\ resp' = [op |-> "upload-sales", req |-> [fileId |-> f],
              status |-> 500, error |-> "parse error"]
  /\ UNCHANGED <<salesDataFiles, lastNormalized, rentalVars>>

-----------------------------------------------------------------------------
(* The analytics requests as actions.                                      *)

TopSeller(fileId) ==
  /\ lastNormalized' = normalizeSalesData(MapGet(salesDataFiles, fileId))
  /\ resp' = TopSellerResponse(salesDataFiles, fileId)
  /\ UNCHANGED <<uploads, salesDataFiles, rentalVars>>

MovingAverage(fileId, product, windowOpt) ==
  /\ lastNormalized' = normalizeSalesData(MapGet(salesDataFiles, fileId))
  /\ resp' = MovingAverageResponse(salesDataFiles, fileId, product, windowOpt)
  /\ UNCHANGED <<uploads, salesDataFiles, rentalVars>>

Correlation(fileId) ==
  /\ lastNormalized' = normalizeSalesData(MapGet(salesDataFiles, fileId))
  /\ resp' = CorrelationResponse(salesDataFiles, fileId)
  /\ UNCHANGED <<uploads, salesDataFiles, rentalVars>>

Forecast(fileId, product, monthsOpt) ==
  /\ lastNormalized' = normalizeSalesData(MapGet(salesDataFiles, fileId))
  /\ resp' = ForecastResponse(salesDataFiles, fileId, product, monthsOpt)
  /\ UNCHANGED <<uploads, salesDataFiles, rentalVars>>

-----------------------------------------------------------------------------
(* The car-rental store (lines 20-113).  The time stamps nowISO() writes   *)
(* into rentals and history entries are read by no handler and left out.   *)

\* The cars set at start-up (lines 31-37).
SeedCars ==
  [c \in {"C001", "C002", "C003", "C004", "C005"} |->
     CASE c = "C001" -> [brand |-> "Toyota", model |-> "Fortuner", pricePerDay |-> 60,
                         available |-> TRUE]
       [] c = "C002" -> [brand |-> "Hyundai", model |-> "Creta", pricePerDay |-> 70,
                         available |-> TRUE]
       [] c = "C003" -> [brand |-> "Mahindra", model |-> "Thar", pricePerDay |-> 150,
                         available |-> TRUE]
       [] c = "C004" -> [brand |-> "Tesla", model |-> "Model 3", pricePerDay |-> 200,
                         available |-> TRUE]
       [] OTHER -> [brand |-> "BMW", model |-> "X5", pricePerDay |-> 250,
                    available |-> TRUE]]

InitRental ==
  /\ cars = SeedCars
  /\ customers = <<>>
  /\ rentals = <<>>
  /\ rentalHistory = <<>>
  /\ ids = 0

\* genId(prefix): prefix plus seven random base-36 digits, taken as an
\* identifier not handed out before (line 27).  Car ids are compared with
\* the carId of requests, so they are strings from a pool.
GenCarIds == <<"Cg1", "Cg2", "Cg3">>
genCarId(n) == GenCarIds[n + 1]
genId(prefix, n) == <<prefix, n>>

NewCarCount == Cardinality(DOMAIN cars) - Cardinality(DOMAIN SeedCars)

\* arr.findIndex(r => r.carId === carId), one-based; 0 for -1
FindIndex(arr, carId) ==
  IF \E i \in 1..Len(arr) : arr[i].carId = carId
  THEN CHOOSE i \in 1..Len(arr) :
         arr[i].carId = carId /\ \A j \in 1..(i - 1) : arr[j].carId # carId
  ELSE 0

\* arr.splice(idx, 1) leaves arr without its idx-th element
Splice(arr, idx) == SubSeq(arr, 1, idx - 1) \o SubSeq(arr, idx + 1, Len(arr))

RentalResp(op, req, status) == [op |-> op, req |-> req, status |-> status]

\* POST /cars (lines 45-52); pricePerDay 0 stands for a missing one
PostCars(brand, model, pricePerDay) ==
  LET req == [brand |-> brand, model |-> model, pricePerDay |-> pricePerDay]
  IN IF brand = Undefined \/ model = Undefined \/ pricePerDay = 0
     THEN /\ resp' = RentalResp("cars", req, 400)
          /\ UNCHANGED <<salesVars, rentalVars>>
     ELSE /\ NewCarCount < MaxNewCars
          /\ LET carId == genCarId(NewCarCount)
             IN /\ cars' = MapSet(cars, carId,
                                  [brand |-> brand, model |-> model,
                                   pricePerDay |-> pricePerDay, available |-> TRUE])
                /\ resp' = [op |-> "cars", req |-> req, status |-> 201, carId |-> carId]
          /\ ids' = ids + 1
          /\ UNCHANGED <<salesVars, customers, rentals, rentalHistory>>

\* POST /rent without the availability test of line 73.
PostRent_Mut(carId, customerName, days) ==
  LET req == [carId |-> carId, customerName |-> customerName, days |-> days]
  IN IF carId = Undefined \/ customerName = Undefined \/ days = 0
     THEN /\ resp' = RentalResp("rent", req, 400)
          /\ UNCHANGED <<salesVars, rentalVars>>
     ELSE IF carId \notin DOMAIN cars
     THEN /\ resp' = RentalResp("rent", req, 404)
          /\ UNCHANGED <<salesVars, rentalVars>>
     ELSE /\ Len(rentalHistory) < MaxHistory
          /\ LET customerId == genId("CUS", ids)
                 rental == [id |-> genId("R", ids + 1), carId |-> carId,
                            customerId |-> customerId, days |-> days]
             IN /\ customers' = MapSet(customers, customerId, customerName)
                /\ cars' = [cars EXCEPT ![carId].available = FALSE]
                /\ rentals' = Append(rentals, rental)
                /\ rentalHistory' = Append(rentalHistory, [rental |-> rental, action |-> "rented"])
                /\ resp' = [op |-> "rent", req |-> req, status |-> 201, rental |-> rental,
                            totalPrice |-> cars[carId].pricePerDay * days]
          /\ ids' = ids + 2
          /\ UNCHANGED salesVars

\* POST /rent (lines 68-88); days 0 stands for a missing one
PostRent(carId, customerName, days) ==
  LET req == [carId |-> carId, customerName |-> customerName, days |-> days]
  IN IF carId = Undefined \/ customerName = Undefined \/ days = 0
     THEN /\ resp' = RentalResp("rent", req, 400)
          /\ UNCHANGED <<salesVars, rentalVars>>
     ELSE IF carId \notin DOMAIN cars
     THEN /\ resp' = RentalResp("rent", req, 404)
          /\ UNCHANGED <<salesVars, rentalVars>>
     ELSE IF ~cars[carId].available
     THEN /\ resp' = RentalResp("rent", req, 409)
          /\ UNCHANGED <<salesVars, rentalVars>>
     ELSE /\ Len(rentalHistory) < MaxHistory
          /\ LET customerId == genId("CUS", ids)
                 rental == [id |-> genId("R", ids + 1), carId |-> carId,
                            customerId |-> customerId, days |-> days]
             IN /\ customers' = MapSet(customers, customerId, customerName)
                /\ cars' = [cars EXCEPT ![carId].available = FALSE]
                /\ rentals' = Append(rentals, rental)
                /\ rentalHistory' = Append(rentalHistory, [rental |-> rental, action |-> "rented"])
                /\ resp' = [op |-> "rent", req |-> req, status |-> 201, rental |-> rental,
                            totalPrice |-> cars[carId].pricePerDay * days]
          /\ ids' = ids + 2
          /\ UNCHANGED salesVars

\* POST /return (lines 90-102)
PostReturn(carId) ==
  LET req == [carId |-> carId]
      idx == FindIndex(rentals, carId)
  IN IF carId = Undefined
     THEN /\ resp' = RentalResp("return", req, 400)
          /\ UNCHANGED <<salesVars, rentalVars>>
     ELSE IF idx = 0
     THEN /\ resp' = RentalResp("return", req, 404)
          /\ UNCHANGED <<salesVars, rentalVars>>
     ELSE /\ Len(rentalHistory) < MaxHistory
          /\ rentals' = Splice(rentals, idx)
          /\ cars' = IF carId \in DOMAIN cars
                     THEN [cars EXCEPT ![carId].available = TRUE]
                     ELSE cars
          /\ rentalHistory' = Append(rentalHistory,
                                     [rental |-> rentals[idx], action |-> "returned"])
          /\ resp' = [op |-> "return", req |-> req, status |-> 200, rental |-> rentals[idx]]
          /\ UNCHANGED <<salesVars, customers, ids>>

\* POST /extend (lines 104-113); extraDays 0 stands for a missing one
PostExtend(carId, extraDays) ==
  LET req == [carId |-> carId, extraDays |-> extraDays]
      idx == FindIndex(rentals, carId)
  IN IF carId = Undefined \/ extraDays = 0
     THEN /\ resp' = RentalResp("extend", req, 400)
          /\ UNCHANGED <<salesVars, rentalVars>>
     ELSE IF idx = 0
     THEN /\ resp' = RentalResp("extend", req, 404)
          /\ UNCHANGED <<salesVars, rentalVars>>
     ELSE /\ Len(rentalHistory) < MaxHistory
          /\ rentals' = [rentals EXCEPT ![idx].days = @ + extraDays]
          /\ rentalHistory' = Append(rentalHistory,
                                     [rental |-> rentals'[idx], action |-> "extended"])
          /\ resp' = [op |-> "extend", req |-> req, status |-> 200,
                      newDays |-> rentals'[idx].days,
                      newTotal |-> cars[carId].pricePerDay * rentals'[idx].days]
          /\ UNCHANGED <<salesVars, cars, customers, ids>>

\* carId of a request: absent, one of two seeded cars, or an id genId may
\* hand out (the id of no car until POST /cars has made it one)
RequestCarIds ==
  {Undefined, "C001", "C002"} \cup {GenCarIds[n] : n \in 1..MaxNewCars}

\* days and extraDays of a request: absent (0) or 2
RequestDays == {0, 2}

InitStore ==
  /\ uploads = <<>>
  /\ salesDataFiles = <<>>
  /\ resp = NoResp
  /\ lastNormalized = NotNormalized
  /\ InitRental

NextRental ==
  \/ \E brand \in {Undefined, "Kia"}, model \in {Undefined, "Seltos"}, price \in {0, 90} :
       PostCars(brand, model, price)
  \/ \E carId \in RequestCarIds, name \in {Undefined, "Ann"}, days \in RequestDays :
       PostRent(carId, name, days)
  \/ \E carId \in RequestCarIds : PostReturn(carId)
  \/ \E carId \in RequestCarIds, extraDays \in RequestDays : PostExtend(carId, extraDays)

SpecRental == InitStore /\ [][NextRental]_vars

-----------------------------------------------------------------------------
(* The upload model: concurrent uploads, their stream events and           *)
(* analytics requests in every interleaving.                               *)

StreamFiles ==
  {[header |-> <<"Month", "A">>, lines |-> [n \in 1..len |-> <<"2024-01-15", "10">>]] :
     len \in 0..MaxStreamRows}

\* fileId of a request: absent, never issued, or one multer may issue
RequestFileIds == {Undefined, "nope"} \cup {FileNames[n] : n \in 1..MaxUploads}

Init == InitStore

Next ==
  \/ \E file \in StreamFiles : PostUploadSales(file)
  \/ PostUploadSalesNoFile
  \/ \E f \in DOMAIN uploads : OnData(f)
  \/ \E f \in DOMAIN uploads : OnEnd(f)
  \/ \E f \in DOMAIN uploads : OnError(f)
  \/ \E id \in RequestFileIds : TopSeller(id)
  \/ \E id \in RequestFileIds : MovingAverage(id, "A", <<>>)
  \/ \E id \in RequestFileIds : Correlation(id)
  \/ \E id \in RequestFileIds : Forecast(id, "A", <<>>)

Spec == Init /\ [][Next]_vars

-----------------------------------------------------------------------------
(* The analytics model: one upload has ended and is cached; the requests   *)
(* range over series names, window sizes and forecast counts.              *)

Headers == {<<"Month">>, <<"Month", "A">>, <<"Month", "A", "B">>, <<"id", "date">>}

\* lines with a parsable date and a number in every cell
CleanCellsAt(pos) ==
  CASE pos = 1 -> {"2024-01-15"} [] pos = 2 -> CleanCells [] OTHER -> SecondCells

CleanLines(header) ==
  {l \in [1..Len(header) -> CleanCells \cup {"2024-01-15"}] :
     \A pos \in 1..Len(header) : l[pos] \in CleanCellsAt(pos)}

CleanFiles ==
  UNION {{[header |-> h, lines |-> ls] : ls \in SeqsUpTo(CleanLines(h), MaxRows)} :
         h \in Headers}

\* lines whose date may not parse, whose cell may be empty or no number, or
\* that stop after the date
DirtyLines ==
  {<<d>> : d \in DateCells} \cup {<<d, c>> : d \in DateCells, c \in NumCells}

DirtyFiles ==
  {[header |-> <<"Month", "A">>, lines |-> ls] : ls \in SeqsUpTo(DirtyLines, MaxDirtyRows)}

AnalyticsFiles == CleanFiles \cup DirtyFiles

Products == {"A", "B", "Z"}
Windows == {<<>>} \cup {<<w>> : w \in -1..MaxWindow}
Counts == {<<>>} \cup {<<k>> : k \in 0..MaxForecast}

InitAnalytics ==
  /\ \E file \in AnalyticsFiles :
       /\ uploads = ("f1" :> Settled("ended"))
       /\ salesDataFiles = ("f1" :> CsvRows(file))
  /\ resp = NoResp
  /\ lastNormalized = NotNormalized
  /\ InitRental

\* A handler reads the cache and writes nothing but its response, so the
\* second request of a run meets the state the first met: one request is
\* served per behaviour.
FirstRequest == resp = NoResp

NextAnalytics ==
  \/ \E id \in {"f1", "nope"} : FirstRequest /\ TopSeller(id)
  \/ \E id \in {"f1", "nope"}, product \in Products, w \in Windows :
       FirstRequest /\ MovingAverage(id, product, w)
  \/ \E id \in {"f1", "nope"} : FirstRequest /\ Correlation(id)
  \/ \E id \in {"f1", "nope"}, product \in Products, k \in Counts :
       FirstRequest /\ Forecast(id, product, k)

SpecAnalytics == InitAnalytics /\ [][NextAnalytics]_vars

-----------------------------------------------------------------------------
(* Properties.                                                             *)

AnalyticsOps == {"top-seller", "moving-average", "correlation", "forecast"}

\* The last response answers an analytics request.
Answered == resp.op \in AnalyticsOps

\* The fileId of the answered request maps to a cached dataset of at least
\* one row.
CachedNonEmpty ==
  /\ resp.req.fileId \in DOMAIN salesDataFiles
  /\ Len(salesDataFiles[resp.req.fileId]) >= 1

RequestRows == salesDataFiles[resp.req.fileId]

Min(a, b) == IF a < b THEN a ELSE b

\* The rows of a dataset whose date-column text parses to a valid date.
Parsable(rows) ==
  {i \in 1..Len(rows) : ~NewDate(Get(rows[i], ObjectKeys(rows[1])[1])).nan}

\* The j-th smallest element of a set of numbers.
Nth(S, j) == CHOOSE i \in S : Cardinality({k \in S : k <= i}) = j

\* r is a multiple of 10^-d at most half a unit of the d-th decimal from x.
RoundedTo(r, x, d) ==
  /\ ~r.nan /\ ~x.nan
  /\ Pow10(d) % r.q = 0
  /\ 2 * Pow10(d) * Abs(Sub(r, x).p) <= Sub(r, x).q

\* y[i] = y[1] + (y[2] - y[1]) * (i - 1): linear in the zero-based index
Linear(y) ==
  \A i \in 1..Len(y) : y[i] = Add(y[1], Mul(Sub(y[2], y[1]), Num(i - 1)))

\* Not all values of the series are equal.
Varies(x) == \E i, j \in 1..Len(x) : x[i] # x[j]

(* C1: an analytics request whose fileId is absent, was never issued,      *)
(* belongs to an upload still streaming or failed, or maps to a cached     *)
(* dataset without rows is answered 400 'invalid or missing fileId' and    *)
(* normalization returned null; a 200 result is sent only for a fileId     *)
(* that maps to a cached dataset of at least one row.                      *)
C1_InvalidFileIdRejected ==
  Answered =>
    /\ ~CachedNonEmpty =>
         /\ resp.status = 400
         /\ resp.error = "invalid or missing fileId"
         /\ lastNormalized.kind = "null"
    /\ resp.status = 200 => CachedNonEmpty

\* C1 witness: a forecast asked of a cached header-only upload got the 400.
C1_HeaderOnlyRejected ==
  /\ resp.op = "forecast"
  /\ resp.status = 400
  /\ resp.req.fileId \in DOMAIN salesDataFiles
  /\ salesDataFiles[resp.req.fileId] = <<>>

(* C2: for a cached dataset of at least one row, normalizeSalesData        *)
(* returns, without an exception, exactly the rows whose date text parses, *)
(* in their input order; their number is the input's less the unparsable.  *)
C2_NormalizeKeepsParsableRows ==
  (Answered /\ CachedNonEmpty) =>
    LET rows == RequestRows
        keep == Parsable(rows)
        parsed == lastNormalized.parsed
    IN /\ lastNormalized.kind = "ok"
       /\ Len(parsed) = Len(rows) - Cardinality((1..Len(rows)) \ keep)
       /\ \A j \in 1..Len(parsed) :
            parsed[j] = NormalizeRow(rows[Nth(keep, j)], lastNormalized.dateCol,
                                     lastNormalized.seriesCols)

\* The same whenever normalizeSalesData returns.
NormalizeKeepsParsableRowsIfReturned ==
  (Answered /\ CachedNonEmpty /\ lastNormalized.kind # "throw") =>
    LET rows == RequestRows
        keep == Parsable(rows)
        parsed == lastNormalized.parsed
    IN /\ lastNormalized.kind = "ok"
       /\ Len(parsed) = Cardinality(keep)
       /\ \A j \in 1..Len(parsed) :
            parsed[j] = NormalizeRow(rows[Nth(keep, j)], lastNormalized.dateCol,
                                     lastNormalized.seriesCols)

\* A cell Number() makes no number of: absent, empty, or other text.
NotNumeric(v) == v = Undefined \/ v = "" \/ ToNumber(v).nan

(* C3: every row normalizeSalesData returns holds a valid Date under       *)
(* 'date' and a number for exactly the series columns (the first raw       *)
(* row's keys but the first); where the source cell is absent, empty or    *)
(* not numeric, that number is 0.                                          *)
C3_NormalizedRowsNumeric ==
  (Answered /\ CachedNonEmpty /\ lastNormalized.kind = "ok") =>
    LET rows == RequestRows
        keep == Parsable(rows)
        parsed == lastNormalized.parsed
        cols == SeriesColsOf(ObjectKeys(rows[1]))
    IN /\ lastNormalized.seriesCols = cols
       /\ \A j \in 1..Len(parsed) :
            /\ DOMAIN parsed[j] = {"date"} \cup Range(cols)
            /\ parsed[j]["date"].t = "date" /\ ~parsed[j]["date"].nan
            /\ \A c \in Range(cols) :
                 /\ parsed[j][c].t = "num" /\ ~parsed[j][c].nan
                 /\ NotNumeric(Get(rows[Nth(keep, j)], c)) => parsed[j][c] = Num(0)

(* C4: the moving average of a known series has one entry per normalized   *)
(* row; with w the requested window (default 3, at least 1), entry i is    *)
(* the mean of the values at max(0, i-w+1)..i, min(w, i+1) of them, and    *)
(* with w = 1 it is the value itself.                                      *)
C4_MovingAverageIsTrailingMean ==
  (resp.op = "moving-average" /\ resp.status = 200) =>
    LET w == Max(1, Default(resp.req.window, 3))
        values == Column(lastNormalized.parsed, resp.req.product)
        mov == resp.body.movingAverage
    IN /\ Len(mov) = Len(lastNormalized.parsed)
       /\ \A j \in 1..Len(mov) :
            LET i == j - 1
                win == SubSeq(values, Max(0, i - w + 1) + 1, i + 1)
            IN /\ Len(win) = Min(w, i + 1)
               /\ mov[j].index = i
               /\ mov[j].ma = Div(Sum(win), Num(Len(win)))
               /\ w = 1 => mov[j].ma = values[j]

\* The same for the windows of at least 1.
MovingAverageIsTrailingMeanFromOne ==
  Default(IF resp.op = "moving-average" THEN resp.req.window ELSE <<>>, 3) >= 1
    => C4_MovingAverageIsTrailingMean

\* The totals of the series columns, by position.
TotalOf(j) == Sum(Column(lastNormalized.parsed, lastNormalized.seriesCols[j]))

\* body names the first of the series columns with the largest total.
NamesFirstMaximum(body) ==
  \E j \in 1..Len(lastNormalized.seriesCols) :
    /\ body.topProduct = lastNormalized.seriesCols[j]
    /\ body.total = TotalOf(j)
    /\ \A k \in 1..Len(lastNormalized.seriesCols) : ~Less(TotalOf(j), TotalOf(k))
    /\ \A k \in 1..(j - 1) : Less(TotalOf(k), TotalOf(j))

(* C5: for a cached dataset of at least one row, top-seller returns a      *)
(* series column of maximal total with that total, the first in column     *)
(* order among those of maximal total.                                     *)
C5_TopSellerIsFirstMaximum ==
  (resp.op = "top-seller" /\ CachedNonEmpty) =>
    /\ resp.status = 200
    /\ NamesFirstMaximum(resp.body)

\* The same whenever top-seller returns a result.
TopSellerIsFirstMaximumIfReturned ==
  (resp.op = "top-seller" /\ resp.status = 200) => NamesFirstMaximum(resp.body)

\* M has an entry for every ordered pair of series columns, is symmetric,
\* has 1 on the diagonal of a series that varies and 0 wherever one of the
\* two series does not.
SymmetricMatrix(M) ==
  LET cols == Range(lastNormalized.seriesCols)
      series(c) == Column(lastNormalized.parsed, c)
  IN /\ DOMAIN M = cols
     /\ \A a \in cols :
          /\ DOMAIN M[a] = cols
          /\ Varies(series(a)) => M[a][a] = Num(1)
          /\ \A b \in cols :
               /\ M[a][b] = M[b][a]
               /\ (~Varies(series(a)) \/ ~Varies(series(b))) => M[a][b] = Num(0)

(* C6: for a cached dataset of at least one row, the correlation matrix    *)
(* has an entry for every ordered pair of series columns, M[a][b] =        *)
(* M[b][a], M[a][a] = 1 when a has nonzero variance, and an entry whose    *)
(* denominator is zero is 0.                                               *)
C6_CorrelationSymmetric ==
  (resp.op = "correlation" /\ CachedNonEmpty) =>
    /\ resp.status = 200
    /\ SymmetricMatrix(resp.body.correlation)

\* The same whenever correlation returns a matrix.
CorrelationSymmetricIfReturned ==
  (resp.op = "correlation" /\ resp.status = 200) =>
    SymmetricMatrix(resp.body.correlation)

\* The answered request is a forecast of a known series of at least two
\* rows that is linear in the row index.
LinearForecast ==
  /\ resp.op = "forecast"
  /\ resp.status = 200
  /\ Len(lastNormalized.parsed) >= 2
  /\ Linear(Column(lastNormalized.parsed, resp.req.product))

(* C7 as stated: for y[i] = a + b*i over n >= 2 rows and a count k         *)
(* (default 3), forecast returns slope b, intercept a and k predictions,   *)
(* the m-th at index n+m-1 with value a + b*(n+m-1).                       *)
C7_ForecastExactOnLinear ==
  LinearForecast =>
    LET y == Column(lastNormalized.parsed, resp.req.product)
        a == y[1]
        b == Sub(y[2], y[1])
        n == Len(y)
        forecast == resp.body.forecast
    IN /\ resp.body.slope = b
       /\ resp.body.intercept = a
       /\ Len(forecast) = Default(resp.req.monthsForecast, 3)
       /\ \A m \in 1..Len(forecast) :
            /\ forecast[m].monthIndex = n + m - 1
            /\ forecast[m].predicted = Add(a, Mul(b, Num(n + m - 1)))

(* C7 amended: slope and intercept are b and a rounded to 4 decimals, and  *)
(* the m-th of the k predictions, at index n+m-1, is a + b*(n+m-1)         *)
(* rounded to 2 decimals.                                                  *)
C7_ForecastRoundedOnLinear ==
  LinearForecast =>
    LET y == Column(lastNormalized.parsed, resp.req.product)
        a == y[1]
        b == Sub(y[2], y[1])
        n == Len(y)
        forecast == resp.body.forecast
    IN /\ RoundedTo(resp.body.slope, b, 4)
       /\ RoundedTo(resp.body.intercept, a, 4)
       /\ Len(forecast) = Default(resp.req.monthsForecast, 3)
       /\ \A m \in 1..Len(forecast) :
            /\ forecast[m].monthIndex = n + m - 1
            /\ RoundedTo(forecast[m].predicted, Add(a, Mul(b, Num(n + m - 1))), 2)

\* C7 witness: the default forecast of the series 10, 20, 30 has slope 10,
\* intercept 10 and predicts 40, 50, 60 at the indexes 3, 4, 5.
C7_LinearForecastWitness ==
  /\ LinearForecast
  /\ resp.req.monthsForecast = <<>>
  /\ Column(lastNormalized.parsed, resp.req.product) = <<Num(10), Num(20), Num(30)>>
  /\ resp.body.slope = Num(10)
  /\ resp.body.intercept = Num(10)
  /\ resp.body.forecast = <<[monthIndex |-> 3, predicted |-> Num(40)],
                            [monthIndex |-> 4, predicted |-> Num(50)],
                            [monthIndex |-> 5, predicted |-> Num(60)]>>

(* C9: a forecast of a known series of fewer than 2 normalized rows, the   *)
(* empty one included, has slope 0, a numeric intercept and numeric        *)
(* predictions, each the intercept (to the 2 decimals of a prediction).    *)
C9_ShortSeriesForecastDefined ==
  (resp.op = "forecast" /\ resp.status = 200 /\ Len(lastNormalized.parsed) < 2) =>
    /\ resp.body.slope = Num(0)
    /\ ~resp.body.intercept.nan
    /\ \A m \in 1..Len(resp.body.forecast) :
         /\ ~resp.body.forecast[m].predicted.nan
         /\ RoundedTo(resp.body.forecast[m].predicted, resp.body.intercept, 2)

\* The same for a series of exactly one row.
OneRowForecastDefined ==
  Len(lastNormalized.parsed) = 1 => C9_ShortSeriesForecastDefined

\* The uploads whose stream has not ended or failed.
Streaming == {f \in DOMAIN uploads : uploads[f].status = "streaming"}

\* One step of the cache: an entry that is cached stays as it is; an entry
\* appears only for a streaming upload all of whose lines have been read,
\* holds the complete rows of that upload, and the upload has then ended;
\* an upload that failed is not cached.
CacheStep ==
  /\ \A f \in DOMAIN salesDataFiles :
       f \in DOMAIN salesDataFiles' /\ salesDataFiles'[f] = salesDataFiles[f]
  /\ \A f \in DOMAIN salesDataFiles' \ DOMAIN salesDataFiles :
       /\ f \in Streaming
       /\ uploads[f].next > Len(uploads[f].file.lines)
       /\ salesDataFiles'[f] = CsvRows(uploads[f].file)
       /\ uploads'[f].status = "ended"
  /\ \A f \in DOMAIN uploads' :
       uploads'[f].status = "error" => f \notin DOMAIN salesDataFiles'

\* An analytics request that got past the fileId test read the rows of an
\* upload that has ended.
ReadsEndedUpload ==
  (resp'.op \in AnalyticsOps /\ resp'.status # 400) =>
    /\ resp'.req.fileId \in DOMAIN uploads
    /\ uploads[resp'.req.fileId].status = "ended"
    /\ resp'.req.fileId \in DOMAIN salesDataFiles

(* C8: in every interleaving of the data, end and error events of          *)
(* concurrent uploads with analytics requests the cache is append-only: a  *)
(* fileId is cached only at the end event of its upload, with all the rows *)
(* of that upload; a failed upload is never cached; no step changes or     *)
(* removes a cached entry; an analytics request computes only on an upload *)
(* that has ended.                                                         *)
C8_CacheAppendOnly == [][CacheStep /\ ReadsEndedUpload]_vars

\* C8 witness: one upload is cached with its rows, another has delivered a
\* row and is still streaming, and an analytics request for the streaming
\* one was refused.
C8_ReadDuringStreaming ==
  /\ \E f \in DOMAIN salesDataFiles : Len(salesDataFiles[f]) >= 1
  /\ Answered
  /\ resp.status = 400
  /\ resp.req.fileId \in Streaming
  /\ Len(uploads[resp.req.fileId].results) >= 1
  /\ resp.req.fileId \notin DOMAIN salesDataFiles

\* The number of active rentals of a car.
ActiveRentals(carId) == Cardinality({i \in 1..Len(rentals) : rentals[i].carId = carId})

\* A car is unavailable exactly when one active rental names it and
\* available exactly when none does.
AvailabilityMatchesRentals ==
  \A carId \in DOMAIN cars :
    /\ ~cars[carId].available <=> ActiveRentals(carId) = 1
    /\ cars[carId].available <=> ActiveRentals(carId) = 0

\* A /rent request for a car that is unavailable changes no store and is
\* not answered 201; it is answered 409 when it carries customerName and
\* days (line 70 answers 400 before the car is looked up).
RentRefused ==
  (/\ resp'.op = "rent"
   /\ resp'.req.carId \in DOMAIN cars
   /\ ~cars[resp'.req.carId].available) =>
    /\ UNCHANGED rentalVars
    /\ resp'.status \in {400, 409}
    /\ (resp'.req.customerName # Undefined /\ resp'.req.days # 0) => resp'.status = 409

=============================================================================
